---- MODULE Spec2Model ----
(***************************************************************************)
(* The Step 2 notebook (Step2_check_signal_from_dl2.ipynb) as a state      *)
(* machine: one action per executed code cell (the theta2 cell, which is a *)
(* loop over observation IDs, takes one step per iteration), the program   *)
(* state being the notebook's global variables.  Further down, the Step 5  *)
(* notebook (SpecStep5) and the subprocess loops of the Step 1 and Step 4  *)
(* notebooks (SpecTools), each a specification of its own.                 *)
(*                                                                         *)
(* Units.  Reals are scaled to integers:                                   *)
(*   time       ticks of 0.1 s          (1 s = 10 ticks, 1 min = 600)      *)
(*   angles     grid steps of 0.1 deg   (theta2 in 0.01 deg2)              *)
(*   gammaness  tenths                  (0.8 = 8)                          *)
(*   disp_diff_mean  hundredths of deg  (compared squared, in 1e-4 deg2)   *)
(*   reco_energy     x stands for 10^(-1 + x/10) TeV, so that the edges    *)
(*                   np.logspace(-1, 1, 11) are x = 0, 2, .., 20           *)
(* Quotients (alpha, n_off_scaled, n_excess, excess_rate) are exact        *)
(* fractions [num, den]; float rounding is not modelled.                   *)
(***************************************************************************)
EXTENDS Integers, Sequences, FiniteSets, TLC

VARIABLES
    pc,               \* the cell that ran last
    input_rows,       \* rows of the input files, in file order
    event_data,       \* telescope-wise table, index (obs_id, event_id, tel_id)
    event_data_mean,  \* event-wise table, index (obs_id, event_id)
    obs_time,         \* livetime, in ticks
    n_regions_off,    \* number of OFF regions
    obs_todo,         \* observation IDs the theta2 loop still has to visit
    event_list,       \* the photon list
    n_on,
    n_off_total,
    alpha,
    n_off_scaled,
    n_excess,
    excess_rate,
    significance,
    cut_value_theta2, \* the theta2 cut of the settings cell
    energy_hists,     \* per energy bin, the histograms the energy cell draws
    event_list_table  \* the events the angular resolution is computed from

\* The Step 5 notebook (Step5_check_flux_from_dl3.ipynb)
VARIABLES
    cell,             \* position of the next code cell in Step5Order
    double,           \* the flag of that name
    defined,          \* the names the kernel has defined
    dl3_inputs,       \* input_dir_1 and, per sample, its first observation's metadata
    on_region,
    on_region_1,
    makers,           \* per sample, the settings its makers were created with
    raised            \* the exception that stopped the run, if any

\* The subprocess loops of the Step 1 and Step 4 notebooks
VARIABLES
    notebook,         \* which of the two notebooks runs
    ip,               \* position of the next statement in its program
    glob_order,       \* per glob pattern, the paths in the order glob returns them
    file_lists,       \* the list variables (input_file_gamma, ...)
    handles,          \* the open log files: variable -> path
    todo,             \* the files the running loop has still to go through
    running,          \* the child process subprocess.run is waiting for
    invoked,          \* every invocation made so far, in order
    returncodes       \* their exit statuses, in the same order

step2_vars == <<pc, input_rows, event_data, event_data_mean, obs_time, n_regions_off,
                obs_todo, event_list, n_on, n_off_total, alpha, n_off_scaled,
                n_excess, excess_rate, significance, cut_value_theta2, energy_hists,
                event_list_table>>

step5_vars == <<cell, double, defined, dl3_inputs, on_region, on_region_1, makers,
                raised>>

tool_vars == <<notebook, ip, glob_order, file_lists, handles, todo, running, invoked,
               returncodes>>

vars == <<step2_vars, step5_vars, tool_vars>>

(***************************************************************************)
(* Bounds of the model.                                                    *)
(***************************************************************************)
MaxEvents == 2      \* events in the input files of the whole pipeline
MaxLen == 5         \* rows of the event-wise table, livetime alone
MaxCount == 6       \* event counts, excess calculation alone

(***************************************************************************)
(* The notebook's settings.                                                *)
(***************************************************************************)
GapThreshold == 10          \* time_diffs < 1           [s]
TicksPerMinute == 600       \* obs_time.to_value("min")
DispDiffSqCut == 500        \* disp_diff_mean < sqrt(0.05)
cut_value_gh == 8           \* cut_value_gh = 0.8
combo_types == {3}          \* combo_types = [3]
Theta2CutChoices == {4, 5}  \* cut_value_theta2 = 0.04 [deg2], or edited to 0.05
AngresTheta2Cut == 4        \* np.sqrt(0.04), squared  [deg2]
on_coord == <<0, 0>>        \* SkyCoord.from_name("Crab"), taken as the origin

Undefined == "undefined"    \* a name no cell has assigned yet
NaN == <<>>                 \* a missing value of a column; a value v is <<v>>

\* The other notebooks are not running.
Step2Idle ==
    /\ pc = Undefined
    /\ input_rows = Undefined
    /\ event_data = Undefined
    /\ event_data_mean = Undefined
    /\ obs_time = Undefined
    /\ n_regions_off = Undefined
    /\ obs_todo = Undefined
    /\ event_list = Undefined
    /\ n_on = Undefined
    /\ n_off_total = Undefined
    /\ alpha = Undefined
    /\ n_off_scaled = Undefined
    /\ n_excess = Undefined
    /\ excess_rate = Undefined
    /\ significance = Undefined
    /\ cut_value_theta2 = Undefined
    /\ energy_hists = Undefined
    /\ event_list_table = Undefined

Step5Idle ==
    /\ cell = Undefined
    /\ double = Undefined
    /\ defined = Undefined
    /\ dl3_inputs = Undefined
    /\ on_region = Undefined
    /\ on_region_1 = Undefined
    /\ makers = Undefined
    /\ raised = Undefined

ToolsIdle ==
    /\ notebook = Undefined
    /\ ip = Undefined
    /\ glob_order = Undefined
    /\ file_lists = Undefined
    /\ handles = Undefined
    /\ todo = Undefined
    /\ running = Undefined
    /\ invoked = Undefined
    /\ returncodes = Undefined

(***************************************************************************)
(* Generic helpers.                                                        *)
(***************************************************************************)
SeqsUpTo(S, n) == UNION {[1..k -> S] : k \in 0..n}

RECURSIVE SumSeq(_)
SumSeq(s) == IF s = <<>> THEN 0 ELSE Head(s) + SumSeq(Tail(s))

Range(s) == {s[i] : i \in 1..Len(s)}

(***************************************************************************)
(* Index order: tuples of integers compared lexicographically, as pandas   *)
(* orders a MultiIndex.                                                    *)
(***************************************************************************)
RECURSIVE LexLeq(_, _)
LexLeq(a, b) ==
    IF a = <<>> THEN TRUE
    ELSE IF Head(a) # Head(b) THEN Head(a) < Head(b)
    ELSE LexLeq(Tail(a), Tail(b))

RECURSIVE SortedKeys(_)
SortedKeys(S) ==
    IF S = {} THEN <<>>
    ELSE LET m == CHOOSE k \in S : \A j \in S : LexLeq(k, j)
         IN  <<m>> \o SortedKeys(S \ {m})

(***************************************************************************)
(* The input files.  An input event is seen by the telescopes of `tels`,   *)
(* which maps each tel_id (1 = LST-1, 2 = MAGIC-I, 3 = MAGIC-II) to the    *)
(* disp_diff_mean of its row; the gammaness of a row is the event's plus  *)
(* the telescope's `dg`, the other DL2 parameters are the same in every    *)
(* row of one event.  The k-th event drawn gets event_id k, and the  *)
(* files list the rows in descending index order.                          *)
(***************************************************************************)
ObsIds == {1, 2}
TimeValues == {0, 5, 10, 25}
Positions == {<<1, 1>>, <<2, 0>>, <<8, 1>>}
TelOrder == <<3, 2, 1>>

Pointing(obs_id) == IF obs_id = 1 THEN <<4, 0>> ELSE <<0, 4>>

TelAll == [t \in {1, 2, 3} |-> 10]
TelM1Bad == [t \in {1, 2, 3} |-> IF t = 2 THEN 30 ELSE 10]
TelMagicOnly == [t \in {2, 3} |-> 10]
TelSingle == [t \in {1, 2} |-> IF t = 2 THEN 30 ELSE 10]

\* dg: what the gammaness of a telescope's row differs by from the event's.
NoSpread == [t \in {1, 2, 3} |-> 0]
SpreadM1Low == [t \in {1, 2, 3} |-> IF t = 2 THEN -6 ELSE 0]
SpreadAround == [t \in {1, 2, 3} |-> t - 2]

Kinds == {[g |-> 9, tels |-> TelAll, dg |-> NoSpread],
          [g |-> 8, tels |-> TelAll, dg |-> NoSpread],
          [g |-> 9, tels |-> TelAll, dg |-> SpreadAround],
          [g |-> 9, tels |-> TelM1Bad, dg |-> NoSpread],
          [g |-> 9, tels |-> TelM1Bad, dg |-> SpreadM1Low],
          [g |-> 9, tels |-> TelMagicOnly, dg |-> NoSpread],
          [g |-> 9, tels |-> TelSingle, dg |-> NoSpread]}

TimingChoices ==
    {[obs_id |-> o, timestamp |-> t, reco |-> on_coord, gammaness |-> 9,
      tels |-> TelAll, dg |-> NoSpread, reco_energy |-> 5] :
        o \in ObsIds, t \in TimeValues}

GeometryChoices ==
    {[obs_id |-> o, timestamp |-> 0, reco |-> p, gammaness |-> g,
      tels |-> TelAll, dg |-> NoSpread, reco_energy |-> 5] :
        o \in ObsIds, p \in Positions, g \in {8, 9}}

CutChoices ==
    {[obs_id |-> o, timestamp |-> 0, reco |-> <<1, 1>>, gammaness |-> k.g,
      tels |-> k.tels, dg |-> k.dg, reco_energy |-> 5] :
        o \in ObsIds, k \in Kinds}

\* Energies inside the first bin, on an edge, inside the last bin and above
\* the last edge; positions near the ON position and near the second OFF
\* position of three.
EnergyValues == {1, 2, 11, 13}

EnergyChoices ==
    {[obs_id |-> 1, timestamp |-> 0, reco |-> p, gammaness |-> 9,
      tels |-> TelAll, dg |-> NoSpread, reco_energy |-> e] :
        p \in {<<1, 1>>, <<8, 1>>}, e \in EnergyValues}

\* Every event of a table is drawn from one family: the timestamps vary, or
\* the reconstructed positions, or what the cuts look at, or the energies.
InputTables ==
    SeqsUpTo(TimingChoices, MaxEvents) \cup SeqsUpTo(GeometryChoices, MaxEvents)
        \cup SeqsUpTo(CutChoices, MaxEvents)
        \cup SeqsUpTo(EnergyChoices, MaxEvents)

InputRow(ev, event_id, tel_id) ==
    [obs_id |-> ev.obs_id, event_id |-> event_id, tel_id |-> tel_id,
     timestamp |-> ev.timestamp,
     reco_ra |-> ev.reco[1], reco_dec |-> ev.reco[2],
     pointing_ra |-> Pointing(ev.obs_id)[1],
     pointing_dec |-> Pointing(ev.obs_id)[2],
     gammaness |-> ev.gammaness + ev.dg[tel_id],
     reco_energy |-> ev.reco_energy,
     disp_diff_mean |-> ev.tels[tel_id]]

RowsOfEvent(ev, event_id) ==
    LET ts == SelectSeq(TelOrder, LAMBDA t : t \in DOMAIN ev.tels)
    IN  [j \in 1..Len(ts) |-> InputRow(ev, event_id, ts[j])]

RECURSIVE FileRows(_, _)
FileRows(evs, k) ==
    IF k = 0 THEN <<>> ELSE RowsOfEvent(evs[k], k) \o FileRows(evs, k - 1)

(***************************************************************************)
(* Cell bf2a65b2: pd.concat, set_index, sort_index.  Index keys are unique *)
(* in the inputs drawn here.                                               *)
(***************************************************************************)
TelIndex(r) == <<r.obs_id, r.event_id, r.tel_id>>
EventIndex(r) == <<r.obs_id, r.event_id>>

sort_index(rows) ==
    LET ks == SortedKeys({TelIndex(r) : r \in Range(rows)})
    IN  [i \in 1..Len(ks) |-> CHOOSE r \in Range(rows) : TelIndex(r) = ks[i]]

(***************************************************************************)
(* magicctapipe.io.get_stereo_events (external): rows failing the quality  *)
(* cut are dropped, then events left with fewer than two telescopes, and   *)
(* every remaining row is tagged with its event's multiplicity and         *)
(* combo_type (0: M1_M2, 1: LST1_M1, 2: LST1_M2, 3: LST1_M1_M2).           *)
(***************************************************************************)
\* Mutant: no quality cut is passed on (quality_cuts = None).
quality_cuts_None(r) == TRUE

quality_cuts(r) == r.disp_diff_mean * r.disp_diff_mean < DispDiffSqCut

TelsOf(rows, r) == {q.tel_id : q \in {x \in Range(rows) : EventIndex(x) = EventIndex(r)}}

ComboTypeOf(tels) ==
    CASE tels = {2, 3} -> 0
      [] tels = {1, 2} -> 1
      [] tels = {1, 3} -> 2
      [] tels = {1, 2, 3} -> 3

get_stereo_events(rows) ==
    LET passed == SelectSeq(rows, quality_cuts)
        stereo == SelectSeq(passed, LAMBDA r : Cardinality(TelsOf(passed, r)) \in {2, 3})
    IN  [i \in 1..Len(stereo) |->
            stereo[i] @@ [multiplicity |-> Cardinality(TelsOf(stereo, stereo[i])),
                          combo_type |-> ComboTypeOf(TelsOf(stereo, stereo[i]))]]

(***************************************************************************)
(* magicctapipe.io.get_dl2_mean (external): one row per (obs_id, event_id) *)
(* in index order, holding the mean of the event's telescope rows.         *)
(***************************************************************************)
Mean(values) == SumSeq(values) \div Len(values)

MeanRow(rows, key) ==
    LET g == SelectSeq(rows, LAMBDA r : EventIndex(r) = key)
        M(Field(_)) == Mean([i \in 1..Len(g) |-> Field(g[i])])
    IN  [obs_id |-> key[1], event_id |-> key[2],
         combo_type |-> g[1].combo_type, multiplicity |-> g[1].multiplicity,
         timestamp |-> M(LAMBDA r : r.timestamp),
         reco_ra |-> M(LAMBDA r : r.reco_ra),
         reco_dec |-> M(LAMBDA r : r.reco_dec),
         pointing_ra |-> M(LAMBDA r : r.pointing_ra),
         pointing_dec |-> M(LAMBDA r : r.pointing_dec),
         gammaness |-> M(LAMBDA r : r.gammaness),
         reco_energy |-> M(LAMBDA r : r.reco_energy),
         theta2 |-> <<>>]

get_dl2_mean(rows) ==
    LET ks == SortedKeys({EventIndex(r) : r \in Range(rows)})
    IN  [i \in 1..Len(ks) |-> MeanRow(rows, ks[i])]

(***************************************************************************)
(* Cell 2a6a5843: np.diff of the timestamp column, the differences below   *)
(* the gap threshold summed.                                               *)
(***************************************************************************)
np_diff(s) == [i \in 1..(IF Len(s) = 0 THEN 0 ELSE Len(s) - 1) |-> s[i + 1] - s[i]]

\* Mutant: a difference equal to the threshold is kept.
BelowGap_AtOrBelow(d) == d <= GapThreshold

BelowGap(d) == d < GapThreshold

Livetime(timestamps) == SumSeq(SelectSeq(np_diff(timestamps), BelowGap))

Timestamps(rows) == [i \in 1..Len(rows) |-> rows[i].timestamp]

(***************************************************************************)
(* A data frame with theta2 columns: `rows` in index order and `theta2_cols`*)
(* the theta2 columns that exist (0: theta2_on, i: theta2_off<i>).  Every  *)
(* row's theta2 maps exactly these columns to a value <<v>> or to NaN.     *)
(***************************************************************************)
Frame(rows, cols) == [rows |-> rows, theta2_cols |-> cols]

Put(f, k, v) == [x \in DOMAIN f \cup {k} |-> IF x = k THEN v ELSE f[x]]

(***************************************************************************)
(* astropy SkyCoord.separation (external), squared: on the grid, the       *)
(* squared Euclidean distance.                                             *)
(***************************************************************************)
Sep2(a, b) == (a[1] - b[1]) * (a[1] - b[1]) + (a[2] - b[2]) * (a[2] - b[2])

(***************************************************************************)
(* magicctapipe.utils.calculate_off_coordinates (external): the ON         *)
(* position rotated about the pointing by i * 360/(n_regions + 1) degrees, *)
(* i = 1..n_regions.  On the grid the rotation is exact for steps of a     *)
(* quarter turn (n_regions = 3) and of a half turn (n_regions = 1).        *)
(***************************************************************************)
RegionChoices == {1, 3}

Rotate(v, quarters) ==
    CASE quarters % 4 = 0 -> v
      [] quarters % 4 = 1 -> <<-v[2], v[1]>>
      [] quarters % 4 = 2 -> <<-v[1], -v[2]>>
      [] quarters % 4 = 3 -> <<v[2], -v[1]>>

calculate_off_coordinates(pointing, on, n_regions) ==
    LET step == 4 \div (n_regions + 1)
        rel == <<on[1] - pointing[1], on[2] - pointing[2]>>
    IN  [i \in 1..n_regions |->
            <<pointing[1] + Rotate(rel, i * step)[1],
              pointing[2] + Rotate(rel, i * step)[2]>>]

(***************************************************************************)
(* Cell e3c7c266, one iteration of the loop over observation IDs.          *)
(***************************************************************************)
\* Mutant: the loop runs over every observation ID of the data set, whether
\* or not the table holds events of it.
np_unique_obs_ids_OfDataSet(frame) ==
    LET ks == SortedKeys({<<o>> : o \in ObsIds})
    IN  [i \in 1..Len(ks) |-> ks[i][1]]

np_unique_obs_ids(frame) ==
    LET ks == SortedKeys({<<r.obs_id>> : r \in Range(frame.rows)})
    IN  [i \in 1..Len(ks) |-> ks[i][1]]

RecoCoord(r) == <<r.reco_ra, r.reco_dec>>

\* df_events = event_data_mean.query(f"obs_id == {obs_id}")
ObsEvents(frame, obs_id) == SelectSeq(frame.rows, LAMBDA r : r.obs_id = obs_id)

\* Mutant: the pointing is averaged over the whole table, not over the
\* observation's events.
ObsPointingMean_AllEvents(frame, obs_id) ==
    <<Mean([i \in 1..Len(frame.rows) |-> frame.rows[i].pointing_ra]),
      Mean([i \in 1..Len(frame.rows) |-> frame.rows[i].pointing_dec])>>

\* pnt_ra_mean, pnt_dec_mean
ObsPointingMean(frame, obs_id) ==
    LET df_events == ObsEvents(frame, obs_id)
    IN  <<Mean([i \in 1..Len(df_events) |-> df_events[i].pointing_ra]),
          Mean([i \in 1..Len(df_events) |-> df_events[i].pointing_dec])>>

\* Mutant: the separation is added to the value the column already holds.
LocAssign_Accumulate(frame, obs_id, col, coord) ==
    Frame([i \in 1..Len(frame.rows) |->
              LET r == frame.rows[i]
                  sep == Sep2(coord, RecoCoord(r))
              IN  IF r.obs_id = obs_id
                  THEN IF col \in frame.theta2_cols /\ r.theta2[col] # NaN
                       THEN [r EXCEPT !.theta2 = Put(@, col, <<r.theta2[col][1] + sep>>)]
                       ELSE [r EXCEPT !.theta2 = Put(@, col, <<sep>>)]
                  ELSE IF col \in frame.theta2_cols THEN r
                  ELSE [r EXCEPT !.theta2 = Put(@, col, NaN)]],
          frame.theta2_cols \cup {col})

\* event_data_mean.loc[(obs_id, slice(None)), column] = theta2 to coord
LocAssign(frame, obs_id, col, coord) ==
    Frame([i \in 1..Len(frame.rows) |->
              LET r == frame.rows[i]
              IN  IF r.obs_id = obs_id
                  THEN [r EXCEPT !.theta2 = Put(@, col, <<Sep2(coord, RecoCoord(r))>>)]
                  ELSE IF col \in frame.theta2_cols THEN r
                  ELSE [r EXCEPT !.theta2 = Put(@, col, NaN)]],
          frame.theta2_cols \cup {col})

RECURSIVE AssignOff(_, _, _, _)
AssignOff(frame, obs_id, off_coords, i_off) ==
    IF i_off \notin DOMAIN off_coords THEN frame
    ELSE AssignOff(LocAssign(frame, obs_id, i_off, off_coords[i_off]),
                   obs_id, off_coords, i_off + 1)

ThetaIteration(frame, obs_id, n_regions) ==
    LET with_on == LocAssign(frame, obs_id, 0, on_coord)
        off_coords == calculate_off_coordinates(ObsPointingMean(frame, obs_id),
                                                on_coord, n_regions)
    IN  AssignOff(with_on, obs_id, off_coords, 1)

(***************************************************************************)
(* Cell 8cc01d78: the photon list.                                         *)
(***************************************************************************)
PhotonSelection(r) == r.combo_type \in combo_types /\ r.gammaness > cut_value_gh

\* event_data_mean.query(...).copy(): the rows selected, the columns kept
PhotonList(frame) == Frame(SelectSeq(frame.rows, PhotonSelection), frame.theta2_cols)

(***************************************************************************)
(* Cell 7f9272b4, the counts.                                              *)
(***************************************************************************)
\* Mutant: an event on the cut is counted.
BelowCut_AtOrBelow(r, col, cut) == r.theta2[col] # NaN /\ r.theta2[col][1] <= cut

\* theta2_<column> < cut (a NaN compares false)
BelowCut(r, col, cut) == r.theta2[col] # NaN /\ r.theta2[col][1] < cut

NOn(frame, cut) == Len(SelectSeq(frame.rows, LAMBDA r : BelowCut(r, 0, cut)))

NOff(frame, i_off, cut) ==
    Len(SelectSeq(frame.rows, LAMBDA r : BelowCut(r, i_off + 1, cut)))

\* Mutant: only the first OFF region is counted.
NOffTotal_FirstOnly(frame, i_off, n_regions, cut) == NOff(frame, 0, cut)

\* for i_off in range(n_regions_off): n_off_total += n_off
RECURSIVE NOffTotal(_, _, _, _)
NOffTotal(frame, i_off, n_regions, cut) ==
    IF i_off >= n_regions THEN 0
    ELSE NOff(frame, i_off, cut) + NOffTotal(frame, i_off + 1, n_regions, cut)

\* Columns the cell reads: event_list["theta2_on"], event_list[f"theta2_off{i_off+1}"]
ColumnsRead(n_regions) == 0..n_regions

(***************************************************************************)
(* Cell 7f9272b4, the excess and its rate.  A fraction is [num, den] with  *)
(* den > 0.  The division is numpy's float division: by zero it gives      *)
(* +-inf, or nan for 0/0, and raises nothing.                              *)
(***************************************************************************)
Frac(num, den) == [num |-> num, den |-> den]

\* Mutant: the ON region is counted among the regions.
Alpha_WithOnRegion(n_regions) == Frac(1, n_regions + 1)

Alpha(n_regions) == Frac(1, n_regions)

NOffScaled(off_total, a) == Frac(off_total * a.num, a.den)

NExcess(on, off_scaled) == Frac(on * off_scaled.den - off_scaled.num, off_scaled.den)

Float(kind, num, den) == [kind |-> kind, num |-> num, den |-> den]

ToMinutes(ticks) == Frac(ticks, TicksPerMinute)

\* Mutant: a division by zero yields the finite number 0.
FloatDiv_ZeroForNoTime(a, b) ==
    IF b.num = 0 THEN Float("finite", 0, 1)
    ELSE IF b.num > 0 THEN Float("finite", a.num * b.den, a.den * b.num)
    ELSE Float("finite", -(a.num * b.den), a.den * (-b.num))

FloatDiv(a, b) ==
    IF b.num = 0
    THEN IF a.num = 0 THEN Float("nan", 0, 1)
         ELSE IF a.num > 0 THEN Float("inf", 0, 1) ELSE Float("-inf", 0, 1)
    ELSE IF b.num > 0 THEN Float("finite", a.num * b.den, a.den * b.num)
    ELSE Float("finite", -(a.num * b.den), a.den * (-b.num))

ExcessRate(excess, time) == FloatDiv(excess, ToMinutes(time))

\* gammapy WStatCountsStatistic(n_on, n_off_total, alpha=alpha).sqrt_ts
\* (external): kept as the call and its arguments.
WStatSqrtTs(on, off_total, a) ==
    [stat |-> "WStatCountsStatistic.sqrt_ts", n_on |-> on, n_off |-> off_total,
     alpha |-> a]

(***************************************************************************)
(* Cell 87e132ba and cell 4d7b6ff1: the theta2 histogram binning, the      *)
(* energy bins, and what the loop over the energy bins draws.              *)
(***************************************************************************)
\* theta2_bins = np.linspace(0, 0.9, 81): edge k lies at 9k/8 in units of
\* 0.01 deg2.  np.histogram puts v into the 0-based bin floor(8v/9), the last
\* bin being closed on the right; values outside the edges and NaN fall in
\* no bin.
NTheta2Bins == 80

Theta2BinOf(v) ==
    IF v = NaN THEN {}
    ELSE IF v[1] < 0 \/ 8 * v[1] > 9 * NTheta2Bins THEN {}
    ELSE IF 8 * v[1] = 9 * NTheta2Bins THEN {NTheta2Bins - 1}
    ELSE {(8 * v[1]) \div 9}

\* A histogram is held by its non-empty bins: bin -> number of entries.
np_histogram(values) ==
    LET hit == UNION {Theta2BinOf(values[i]) : i \in 1..Len(values)}
    IN  [b \in hit |-> Cardinality({i \in 1..Len(values) : Theta2BinOf(values[i]) = {b}})]

\* df_events["theta2_on"], df_events["theta2_off<i>"]
Theta2Column(frame, col) == [i \in 1..Len(frame.rows) |-> frame.rows[i].theta2[col]]

\* energy_bins = np.logspace(-1, 1, 11)[:-4]
np_logspace == [k \in 1..11 |-> 2 * (k - 1)]

energy_bins == SubSeq(np_logspace, 1, Len(np_logspace) - 4)

\* event_list.query("(reco_energy > eng_lo) & (reco_energy < eng_hi)").copy()
EnergySlice(frame, eng_lo, eng_hi) ==
    Frame(SelectSeq(frame.rows,
                    LAMBDA r : r.reco_energy > eng_lo /\ r.reco_energy < eng_hi),
          frame.theta2_cols)

\* One pass of the loop body: the subplot of the bin with the index of
\* df_events, and, if the bin holds events, the histogram of theta2_on and the
\* histogram of theta2_off1.
EnergyBinPlot(frame, eng_lo, eng_hi) ==
    LET df_events == EnergySlice(frame, eng_lo, eng_hi)
        subplot == [eng_lo |-> eng_lo, eng_hi |-> eng_hi,
                    index |-> [i \in 1..Len(df_events.rows) |->
                                  EventIndex(df_events.rows[i])]]
    IN  IF Len(df_events.rows) > 0
        THEN subplot @@ [hist_on |-> np_histogram(Theta2Column(df_events, 0)),
                         hist_off |-> np_histogram(Theta2Column(df_events, 1)),
                         off_columns |-> {1}]
        ELSE subplot

\* for i_bin, (eng_lo, eng_hi) in enumerate(zip(energy_bins[:-1], energy_bins[1:]))
EnergyLoop(frame) ==
    [i_bin \in 1..(Len(energy_bins) - 1) |->
        EnergyBinPlot(frame, energy_bins[i_bin], energy_bins[i_bin + 1])]

(***************************************************************************)
(* Cell ea9383ea: the events the angular resolution is computed from.  The *)
(* column theta is sqrt(theta2_on); theta < sqrt(0.04) is compared on the  *)
(* squares.                                                                *)
(***************************************************************************)
AngresMask(r) == r.theta2[0] # NaN /\ r.theta2[0][1] < AngresTheta2Cut

AngresEvents(frame) == Frame(SelectSeq(frame.rows, AngresMask), frame.theta2_cols)

(***************************************************************************)
(* The cells, in execution order.                                          *)
(***************************************************************************)
Init ==
    \E table \in InputTables, n \in RegionChoices, cut \in Theta2CutChoices :
        /\ pc = "start"
        /\ input_rows = FileRows(table, Len(table))
        /\ n_regions_off = n
        /\ event_data = Undefined
        /\ event_data_mean = Undefined
        /\ obs_time = Undefined
        /\ obs_todo = Undefined
        /\ event_list = Undefined
        /\ n_on = Undefined
        /\ n_off_total = Undefined
        /\ alpha = Undefined
        /\ n_off_scaled = Undefined
        /\ n_excess = Undefined
        /\ excess_rate = Undefined
        /\ significance = Undefined
        /\ cut_value_theta2 = cut
        /\ energy_hists = Undefined
        /\ event_list_table = Undefined
        /\ Step5Idle
        /\ ToolsIdle

\* Cell bf2a65b2
CellLoad ==
    /\ pc = "start"
    /\ event_data' = sort_index(input_rows)
    /\ pc' = "loaded"
    /\ UNCHANGED <<input_rows, event_data_mean, obs_time, n_regions_off, obs_todo,
                   event_list, n_on, n_off_total, alpha, n_off_scaled, n_excess,
                   excess_rate, significance,
                   cut_value_theta2, energy_hists, event_list_table,
                   step5_vars, tool_vars>>

\* Cell 28fefb12
CellQualityCuts ==
    /\ pc = "loaded"
    /\ event_data' = get_stereo_events(event_data)
    /\ pc' = "stereo"
    /\ UNCHANGED <<input_rows, event_data_mean, obs_time, n_regions_off, obs_todo,
                   event_list, n_on, n_off_total, alpha, n_off_scaled, n_excess,
                   excess_rate, significance,
                   cut_value_theta2, energy_hists, event_list_table,
                   step5_vars, tool_vars>>

\* Cell e199a8f8
CellExcludeMagicStereo ==
    /\ pc = "stereo"
    /\ event_data' = SelectSeq(event_data, LAMBDA r : r.combo_type # 0)
    /\ pc' = "combo"
    /\ UNCHANGED <<input_rows, event_data_mean, obs_time, n_regions_off, obs_todo,
                   event_list, n_on, n_off_total, alpha, n_off_scaled, n_excess,
                   excess_rate, significance,
                   cut_value_theta2, energy_hists, event_list_table,
                   step5_vars, tool_vars>>

\* Cell 4ce40ed4
CellMean ==
    /\ pc = "combo"
    /\ event_data_mean' = Frame(get_dl2_mean(event_data), {})
    /\ pc' = "mean"
    /\ UNCHANGED <<input_rows, event_data, obs_time, n_regions_off, obs_todo,
                   event_list, n_on, n_off_total, alpha, n_off_scaled, n_excess,
                   excess_rate, significance,
                   cut_value_theta2, energy_hists, event_list_table,
                   step5_vars, tool_vars>>

\* Cell 2a6a5843
CellObsTime ==
    /\ pc = "mean"
    /\ obs_time' = Livetime(Timestamps(event_data_mean.rows))
    /\ pc' = "obstime"
    /\ UNCHANGED <<input_rows, event_data, event_data_mean, n_regions_off, obs_todo,
                   event_list, n_on, n_off_total, alpha, n_off_scaled, n_excess,
                   excess_rate, significance,
                   cut_value_theta2, energy_hists, event_list_table,
                   step5_vars, tool_vars>>

\* Cell e3c7c266: obs_ids = np.unique(...)
CellThetaStart ==
    /\ pc = "obstime"
    /\ obs_todo' = np_unique_obs_ids(event_data_mean)
    /\ pc' = IF obs_todo' = <<>> THEN "theta_done" ELSE "theta_loop"
    /\ UNCHANGED <<input_rows, event_data, event_data_mean, obs_time, n_regions_off,
                   event_list, n_on, n_off_total, alpha, n_off_scaled, n_excess,
                   excess_rate, significance,
                   cut_value_theta2, energy_hists, event_list_table,
                   step5_vars, tool_vars>>

\* Cell e3c7c266: the body of `for obs_id in obs_ids`
ThetaLoopBody ==
    /\ pc = "theta_loop"
    /\ event_data_mean' = ThetaIteration(event_data_mean, Head(obs_todo), n_regions_off)
    /\ obs_todo' = Tail(obs_todo)
    /\ pc' = IF obs_todo' = <<>> THEN "theta_done" ELSE "theta_loop"
    /\ UNCHANGED <<input_rows, event_data, obs_time, n_regions_off,
                   event_list, n_on, n_off_total, alpha, n_off_scaled, n_excess,
                   excess_rate, significance,
                   cut_value_theta2, energy_hists, event_list_table,
                   step5_vars, tool_vars>>

\* Cell e3c7c266 run once more, on the table it has already filled
CellThetaRerun ==
    /\ pc = "theta_done"
    /\ obs_todo' = np_unique_obs_ids(event_data_mean)
    /\ pc' = IF obs_todo' = <<>> THEN "theta_done" ELSE "theta_loop"
    /\ UNCHANGED <<input_rows, event_data, event_data_mean, obs_time, n_regions_off,
                   event_list, n_on, n_off_total, alpha, n_off_scaled, n_excess,
                   excess_rate, significance,
                   cut_value_theta2, energy_hists, event_list_table,
                   step5_vars, tool_vars>>

\* Cell 8cc01d78
CellSelect ==
    /\ pc = "theta_done"
    /\ event_list' = PhotonList(event_data_mean)
    /\ pc' = "selected"
    /\ UNCHANGED <<input_rows, event_data, event_data_mean, obs_time, n_regions_off,
                   obs_todo, n_on, n_off_total, alpha, n_off_scaled, n_excess,
                   excess_rate, significance,
                   cut_value_theta2, energy_hists, event_list_table,
                   step5_vars, tool_vars>>

\* Cell 7f9272b4, to `print(f"--> Total Noff: {n_off_total}")`: a missing
\* theta2 column raises a KeyError and the cell stops.
CellCount ==
    /\ pc = "selected"
    /\ IF ColumnsRead(n_regions_off) \subseteq event_list.theta2_cols
       THEN /\ n_on' = NOn(event_list, cut_value_theta2)
            /\ n_off_total' = NOffTotal(event_list, 0, n_regions_off, cut_value_theta2)
            /\ pc' = "counted"
       ELSE /\ pc' = "error"
            /\ UNCHANGED <<n_on, n_off_total>>
    /\ UNCHANGED <<input_rows, event_data, event_data_mean, obs_time, n_regions_off,
                   obs_todo, event_list, alpha, n_off_scaled, n_excess,
                   excess_rate, significance,
                   cut_value_theta2, energy_hists, event_list_table,
                   step5_vars, tool_vars>>

\* Cell 7f9272b4, from `alpha = 1 / n_regions_off` to the end
CellExcessSignificance ==
    /\ pc = "counted"
    /\ alpha' = Alpha(n_regions_off)
    /\ n_off_scaled' = NOffScaled(n_off_total, alpha')
    /\ n_excess' = NExcess(n_on, n_off_scaled')
    /\ excess_rate' = ExcessRate(n_excess', obs_time)
    /\ significance' = WStatSqrtTs(n_on, n_off_total, alpha')
    /\ pc' = "done"
    /\ UNCHANGED <<input_rows, event_data, event_data_mean, obs_time, n_regions_off,
                   obs_todo, event_list, n_on, n_off_total,
                   cut_value_theta2, energy_hists, event_list_table,
                   step5_vars, tool_vars>>

\* Cell 4d7b6ff1
CellEnergyBins ==
    /\ pc = "done"
    /\ energy_hists' = EnergyLoop(event_list)
    /\ pc' = "energy_done"
    /\ UNCHANGED <<input_rows, event_data, event_data_mean, obs_time, n_regions_off,
                   obs_todo, event_list, n_on, n_off_total, alpha, n_off_scaled,
                   n_excess, excess_rate, significance, cut_value_theta2,
                   event_list_table,
                   step5_vars, tool_vars>>

\* Cell ea9383ea, to `event_list_table=event_list_table[mask]`
CellAngularResolution ==
    /\ pc = "energy_done"
    /\ event_list_table' = AngresEvents(event_list)
    /\ pc' = "angres"
    /\ UNCHANGED <<input_rows, event_data, event_data_mean, obs_time, n_regions_off,
                   obs_todo, event_list, n_on, n_off_total, alpha, n_off_scaled,
                   n_excess, excess_rate, significance, cut_value_theta2,
                   energy_hists,
                   step5_vars, tool_vars>>

Next ==
    \/ CellLoad
    \/ CellQualityCuts
    \/ CellExcludeMagicStereo
    \/ CellMean
    \/ CellObsTime
    \/ CellThetaStart
    \/ ThetaLoopBody
    \/ CellThetaRerun
    \/ CellSelect
    \/ CellCount
    \/ CellExcessSignificance
    \/ CellEnergyBins
    \/ CellAngularResolution

Spec == Init /\ [][Next]_vars

(***************************************************************************)
(* The livetime alone: cell 2a6a5843 applied to event-wise tables of one   *)
(* observation with arbitrary timestamps.                                  *)
(***************************************************************************)
LivetimeValues == {0, 5, 10, 500, 503}

TimedRow(event_id, timestamp) ==
    [obs_id |-> 1, event_id |-> event_id, combo_type |-> 3, multiplicity |-> 3,
     timestamp |-> timestamp, reco_ra |-> 0, reco_dec |-> 0,
     pointing_ra |-> Pointing(1)[1], pointing_dec |-> Pointing(1)[2],
     gammaness |-> 9, reco_energy |-> 10, theta2 |-> <<>>]

InitLivetime ==
    \E ts \in SeqsUpTo(LivetimeValues, MaxLen) :
        /\ pc = "mean"
        /\ event_data_mean = Frame([i \in 1..Len(ts) |-> TimedRow(i, ts[i])], {})
        /\ input_rows = Undefined
        /\ n_regions_off = Undefined
        /\ event_data = Undefined
        /\ obs_time = Undefined
        /\ obs_todo = Undefined
        /\ event_list = Undefined
        /\ n_on = Undefined
        /\ n_off_total = Undefined
        /\ alpha = Undefined
        /\ n_off_scaled = Undefined
        /\ n_excess = Undefined
        /\ excess_rate = Undefined
        /\ significance = Undefined
        /\ cut_value_theta2 = Undefined
        /\ energy_hists = Undefined
        /\ event_list_table = Undefined
        /\ Step5Idle
        /\ ToolsIdle

NextLivetime == CellObsTime

SpecLivetime == InitLivetime /\ [][NextLivetime]_vars

(***************************************************************************)
(* The excess calculation alone: the second half of cell 7f9272b4 applied  *)
(* to arbitrary counts, numbers of OFF regions and livetimes.              *)
(***************************************************************************)
MaxRegions == 4

OnCounts == 0..MaxCount \cup {120}
OffCounts == 0..MaxCount \cup {180}
ObsTimes == {0, 13, 600}

InitCalc ==
    \E on \in OnCounts, off \in OffCounts, n \in 1..MaxRegions, t \in ObsTimes :
        /\ pc = "counted"
        /\ n_on = on
        /\ n_off_total = off
        /\ n_regions_off = n
        /\ obs_time = t
        /\ input_rows = Undefined
        /\ event_data = Undefined
        /\ event_data_mean = Undefined
        /\ obs_todo = Undefined
        /\ event_list = Undefined
        /\ alpha = Undefined
        /\ n_off_scaled = Undefined
        /\ n_excess = Undefined
        /\ excess_rate = Undefined
        /\ significance = Undefined
        /\ cut_value_theta2 = Undefined
        /\ energy_hists = Undefined
        /\ event_list_table = Undefined
        /\ Step5Idle
        /\ ToolsIdle

NextCalc == CellExcessSignificance

SpecCalc == InitCalc /\ [][NextCalc]_vars

(***************************************************************************)
(* The Step 5 notebook.  Its code cells run in order ("Run All"); a cell   *)
(* that reads a name the kernel has not defined raises a NameError, which  *)
(* stops the run.  For every code cell, Step5Cells lists the names of the  *)
(* notebook's own variables it reads and defines, always and under         *)
(* `if double:`.  gammapy objects are held by the arguments they are       *)
(* created with.  Angles are in tenths of a degree.                        *)
(***************************************************************************)
NoError == [error |-> "none", cell |-> 0, names |-> {}]

Step5Order == <<5, 7, 9, 11, 13, 15, 17, 19, 21, 23, 25, 27, 29, 31, 32, 34, 36,
                38, 39, 41, 43, 45, 47, 49, 51, 53>>

CellNames(reads, reads_double, defines, defines_double) ==
    [reads |-> reads, reads_double |-> reads_double,
     defines |-> defines, defines_double |-> defines_double]

Step5Cells(c) ==
    CASE c = 5 -> CellNames({}, {}, {"input_dir", "input_dir_1", "double", "data_store"},
                            {"data_store_1"})
      [] c = 7 -> CellNames({"data_store"}, {"data_store_1"},
                            {"obs_ids", "obs_ids_1", "observations"}, {"observations_1"})
      [] c = 9 -> CellNames({"observations"}, {},
                            {"observation", "event_meta", "aeff_meta", "target_position",
                             "on_region"}, {})
      [] c = 11 -> CellNames({"double"}, {"observations_1", "event_meta", "aeff_meta"},
                             {}, {"observation_1", "event_meta_1", "aeff_meta_1",
                                  "target_position_1", "on_region_1"})
      [] c = 13 -> CellNames({"on_region"}, {},
                             {"n_off_regions", "energy_axis", "energy_axis_true", "on_geom",
                              "dataset_empty", "dataset_maker", "region_finder",
                              "bkg_maker", "safe_mask_maker"}, {})
      [] c = 15 -> CellNames({"double"},
                             {"on_region_1", "energy_axis", "energy_axis_true",
                              "n_off_regions"},
                             {}, {"on_geom_1", "dataset_empty_1", "dataset_maker_1",
                                  "region_finder_1", "bkg_maker_1", "safe_mask_maker_1"})
      [] c = 17 -> CellNames({"target_position", "observations", "dataset_maker",
                              "dataset_empty", "bkg_maker", "safe_mask_maker"}, {},
                             {"datasets", "counts", "n_observations", "info_table"}, {})
      [] c = 19 -> CellNames({"double"},
                             {"target_position_1", "observations_1", "dataset_maker_1",
                              "dataset_empty_1", "bkg_maker_1", "safe_mask_maker_1"},
                             {}, {"datasets_1", "counts_1", "n_observations_1",
                                  "info_table_1"})
      [] c = 21 -> CellNames({"counts", "on_geom", "n_observations", "datasets"}, {}, {}, {})
      [] c = 23 -> CellNames({"info_table"}, {}, {}, {})
      [] c = 25 -> CellNames({"datasets", "double"}, {"datasets_1"},
                             {"source_name", "spectral_model", "sky_model",
                              "stacked_dataset", "fit"}, {"stacked_dataset_1"})
      [] c = 27 -> CellNames({"fit", "stacked_dataset"}, {}, {"results", "best_fit_model"}, {})
      [] c = 29 -> CellNames({"double"}, {"fit", "stacked_dataset_1"},
                             {}, {"results_1", "best_fit_model_1"})
      [] c = 31 -> CellNames({"stacked_dataset"}, {}, {}, {})
      [] c = 32 -> CellNames({"double"}, {"stacked_dataset_1"}, {}, {})
      [] c = 34 -> CellNames({"energy_axis", "source_name"}, {}, {"flux_points_estimator"}, {})
      [] c = 36 -> CellNames({"flux_points_estimator", "stacked_dataset"}, {},
                             {"flux_points"}, {})
      [] c = 38 -> CellNames({"double"}, {"flux_points_estimator", "stacked_dataset_1"},
                             {}, {"flux_points_1"})
      [] c = 39 -> CellNames({"flux_points_1"}, {}, {}, {})
      [] c = 41 -> CellNames({"energy_axis", "flux_points", "double", "best_fit_model",
                              "source_name"},
                             {"flux_points_1", "best_fit_model_1"},
                             {"sed_type", "yunits", "crab_model", "reference_models",
                              "energy_bounds"}, {})
      [] c = 43 -> CellNames({"best_fit_model", "source_name", "datasets"}, {},
                             {"frozen_params", "sky_model"}, {})
      [] c = 45 -> CellNames({"double"},
                             {"best_fit_model_1", "source_name", "frozen_params",
                              "datasets_1"}, {}, {"sky_model_1"})
      [] c = 47 -> CellNames({"energy_axis", "source_name"}, {},
                             {"energy_edges", "time_intervals", "light_curve_estimator"}, {})
      [] c = 49 -> CellNames({"light_curve_estimator", "datasets"}, {}, {"light_curve"}, {})
      [] c = 51 -> CellNames({"double"}, {"light_curve_estimator", "datasets_1"},
                             {}, {"light_curve_1"})
      [] c = 53 -> CellNames({"light_curve", "double", "reference_models", "energy_edges",
                              "source_name"}, {"light_curve_1"}, {}, {})

\* The names a cell reads before it has defined them itself.
Reads(c, d) ==
    (Step5Cells(c).reads \cup (IF d THEN Step5Cells(c).reads_double ELSE {}))
        \ Step5Cells(c).defines

Defines(c, d) ==
    Step5Cells(c).defines \cup (IF d THEN Step5Cells(c).defines_double ELSE {})

NameError(c, names) == [error |-> "NameError", cell |-> c, names |-> names]

\* The kernel runs cell c with flag d: the cell completes and its names are
\* defined, or it raises a NameError for a name it reads.
RunCell(c, d) ==
    LET missing == Reads(c, d) \ defined
    IN  IF missing = {}
        THEN /\ defined' = defined \cup Defines(c, d)
             /\ cell' = cell + 1
             /\ raised' = raised
        ELSE /\ raised' = NameError(c, missing)
             /\ UNCHANGED <<defined, cell>>

Completes(c, d) == Reads(c, d) \subseteq defined

CanRun(c) ==
    /\ raised = NoError
    /\ cell \in 1..Len(Step5Order)
    /\ Step5Order[cell] = c

\* Cell 5: double = True; if input_dir_1 == '': double = False
Step5CellLoad ==
    /\ CanRun(5)
    /\ double' = (dl3_inputs.input_dir_1 # "")
    /\ RunCell(5, double')
    /\ UNCHANGED <<dl3_inputs, on_region, on_region_1, makers>>
    /\ UNCHANGED <<step2_vars, tool_vars>>

SkyCoord(ra, dec) == <<ra, dec>>

CircleSkyRegion(center, radius) ==
    [shape |-> "CircleSkyRegion", center |-> center, radius |-> radius]

PointSkyRegion(center) == [shape |-> "PointSkyRegion", center |-> center]

\* "RAD_MAX" in aeff_meta, aeff_meta["RAD_MAX"]: metadata are sets of
\* <<key, value>> pairs.
HasKey(meta, key) == \E kv \in meta : kv[1] = key
ValueOf(meta, key) == (CHOOSE kv \in meta : kv[1] = key)[2]

\* Cell 9
Step5CellOnRegion ==
    /\ CanRun(9)
    /\ RunCell(9, double)
    /\ LET event_meta == dl3_inputs.meta[1].event_meta
           aeff_meta == dl3_inputs.meta[1].aeff_meta
           target_position == SkyCoord(event_meta.RA_OBJ, event_meta.DEC_OBJ)
       IN  on_region' =
               IF ~Completes(9, double) THEN on_region
               ELSE IF HasKey(aeff_meta, "RAD_MAX")
               THEN CircleSkyRegion(target_position, ValueOf(aeff_meta, "RAD_MAX"))
               ELSE PointSkyRegion(target_position)
    /\ UNCHANGED <<double, dl3_inputs, on_region_1, makers>>
    /\ UNCHANGED <<step2_vars, tool_vars>>

\* Cell 11: event_meta_1 and aeff_meta_1 are read from the second sample, and
\* the region is built from event_meta, aeff_meta and target_position.
Step5CellOnRegion1 ==
    /\ CanRun(11)
    /\ RunCell(11, double)
    /\ LET event_meta == dl3_inputs.meta[1].event_meta
           aeff_meta == dl3_inputs.meta[1].aeff_meta
           target_position == SkyCoord(event_meta.RA_OBJ, event_meta.DEC_OBJ)
           event_meta_1 == dl3_inputs.meta[2].event_meta
           aeff_meta_1 == dl3_inputs.meta[2].aeff_meta
           target_position_1 == SkyCoord(event_meta.RA_OBJ, event_meta.DEC_OBJ)
       IN  on_region_1' =
               IF ~double \/ ~Completes(11, double) THEN on_region_1
               ELSE IF HasKey(aeff_meta, "RAD_MAX")
               THEN CircleSkyRegion(target_position, ValueOf(aeff_meta, "RAD_MAX"))
               ELSE PointSkyRegion(target_position_1)
    /\ UNCHANGED <<double, dl3_inputs, on_region, makers>>
    /\ UNCHANGED <<step2_vars, tool_vars>>

\* Cell 13, settings
n_off_regions == 3

energy_axis ==
    [energy_min |-> "0.030 TeV", energy_max |-> "30. TeV", nbin |-> 5,
     per_decade |-> TRUE, name |-> "energy"]

energy_axis_true ==
    [energy_min |-> "0.01 TeV", energy_max |-> "100 TeV", nbin |-> 10,
     per_decade |-> TRUE, name |-> "energy_true"]

SpectrumDatasetMaker(containment_correction, selection, use_region_center) ==
    [containment_correction |-> containment_correction, selection |-> selection,
     use_region_center |-> use_region_center]

SafeMaskMaker(methods, aeff_percent) ==
    [methods |-> methods, aeff_percent |-> aeff_percent]

Makers(region, axis, axis_true, n_off, dataset_maker, safe_mask_maker) ==
    [on_geom |-> [region |-> region, axes |-> <<axis>>],
     energy_axis_true |-> axis_true,
     region_finder |-> [n_off_regions |-> n_off],
     dataset_maker |-> dataset_maker,
     safe_mask_maker |-> safe_mask_maker]

\* Cell 13
Step5CellMakers ==
    /\ CanRun(13)
    /\ RunCell(13, double)
    /\ makers' =
           IF ~Completes(13, double) THEN makers
           ELSE [makers EXCEPT ![1] =
                    Makers(on_region, energy_axis, energy_axis_true, n_off_regions,
                           SpectrumDatasetMaker(FALSE, <<"counts", "exposure", "edisp">>,
                                                TRUE),
                           SafeMaskMaker(<<"aeff-max">>, 10))]
    /\ UNCHANGED <<double, dl3_inputs, on_region, on_region_1>>
    /\ UNCHANGED <<step2_vars, tool_vars>>

\* Cell 15
Step5CellMakers1 ==
    /\ CanRun(15)
    /\ RunCell(15, double)
    /\ makers' =
           IF ~double \/ ~Completes(15, double) THEN makers
           ELSE [makers EXCEPT ![2] =
                    Makers(on_region_1, energy_axis, energy_axis_true, n_off_regions,
                           SpectrumDatasetMaker(FALSE, <<"counts", "exposure", "edisp">>,
                                                TRUE),
                           SafeMaskMaker(<<"aeff-max">>, 3))]
    /\ UNCHANGED <<double, dl3_inputs, on_region, on_region_1>>
    /\ UNCHANGED <<step2_vars, tool_vars>>

\* Every other code cell
Step5CellOther ==
    /\ \E c \in Range(Step5Order) \ {5, 9, 11, 13, 15} :
           /\ CanRun(c)
           /\ RunCell(c, double)
    /\ UNCHANGED <<double, dl3_inputs, on_region, on_region_1, makers>>
    /\ UNCHANGED <<step2_vars, tool_vars>>

\* The first observation of a DL3 sample: the target of its event list and
\* the metadata of its effective area, with or without RAD_MAX.
TargetChoices == {[RA_OBJ |-> 836, DEC_OBJ |-> 220], [RA_OBJ |-> 840, DEC_OBJ |-> 220]}
AeffMetaChoices == {{}, {<<"RAD_MAX", 2>>}, {<<"RAD_MAX", 3>>}}

MetaChoices ==
    {[event_meta |-> t, aeff_meta |-> a] : t \in TargetChoices, a \in AeffMetaChoices}

InitStep5 ==
    \E dir_1 \in {"", "DL3_int/"}, first \in MetaChoices, second \in MetaChoices :
        /\ cell = 1
        /\ double = Undefined
        /\ defined = {}
        /\ dl3_inputs = [input_dir_1 |-> dir_1, meta |-> <<first, second>>]
        /\ on_region = Undefined
        /\ on_region_1 = Undefined
        /\ makers = <<Undefined, Undefined>>
        /\ raised = NoError
        /\ Step2Idle
        /\ ToolsIdle

NextStep5 ==
    \/ Step5CellLoad
    \/ Step5CellOnRegion
    \/ Step5CellOnRegion1
    \/ Step5CellMakers
    \/ Step5CellMakers1
    \/ Step5CellOther

SpecStep5 == InitStep5 /\ [][NextStep5]_vars

(***************************************************************************)
(* The Step 1 and Step 4 notebooks: the statements that open the log       *)
(* files, list the input files and run the pipeline scripts, in cell       *)
(* order.  subprocess.run starts a child process and returns when it has   *)
(* exited, with any exit status; paths are integers in lexicographic       *)
(* order.                                                                  *)
(***************************************************************************)
MaxFiles == 2       \* input files a glob pattern matches

Open(var, path) == [op |-> "open", var |-> var, path |-> path]
GlobSort(var, pattern) == [op |-> "glob", var |-> var, pattern |-> pattern]
Loop(script, list, log) == [op |-> "loop", script |-> script, list |-> list, log |-> log]
Run(script, log) == [op |-> "run", script |-> script, log |-> log]

Step1Program ==
    <<Open("f", "RF.log"),
      Run("lst1_magic_train_rfs.py", "f"),
      Open("f_g", "DL2_mc_gamma.log"),
      Open("f_p", "DL2_mc_proton.log"),
      GlobSort("input_file_gamma", "dir_dl1_gamma_test"),
      GlobSort("input_file_proton", "dir_dl1_proton_test"),
      Loop("lst1_magic_dl1_stereo_to_dl2.py", "input_file_gamma", "f_g"),
      Loop("lst1_magic_dl1_stereo_to_dl2.py", "input_file_proton", "f_p"),
      Open("f", "DL2_data.log"),
      GlobSort("input_file_data", "input_data"),
      Loop("lst1_magic_dl1_stereo_to_dl2.py", "input_file_data", "f")>>

Step4Program ==
    <<Open("f", "IRF.log"),
      GlobSort("input_file_gamma", "input_gamma"),
      Loop("lst1_magic_create_irf.py", "input_file_gamma", "f"),
      Open("f", "DL3.log"),
      GlobSort("input_file_data", "input_data"),
      Loop("lst1_magic_dl2_to_dl3.py", "input_file_data", "f"),
      Run("create_dl3_index_files.py", "f")>>

Program == IF notebook = "Step1" THEN Step1Program ELSE Step4Program

AtEnd == ip = Len(Program) + 1

NoProcess == [script |-> "none"]
NotLooping == [active |-> FALSE, files |-> <<>>]
NoFile == 0

\* Mutant: the list is left in the order glob returned it.
ListSort_Unsorted(s) == s

\* list.sort()
ListSort(s) ==
    LET ks == SortedKeys({<<x>> : x \in Range(s)})
    IN  [i \in 1..Len(ks) |-> ks[i][1]]

\* Mutant: the exit status is checked (check=True) and a failure raises,
\* which ends the run.
ResumeAt_Checked(returncode, ip_next, ip_end) ==
    IF returncode # 0 THEN ip_end ELSE ip_next

\* subprocess.run(...) returns the CompletedProcess whatever its returncode;
\* the notebooks never look at it.
ResumeAt(returncode, ip_next, ip_end) == ip_next

Invocation(stmt, script, file, log) ==
    [stmt |-> stmt, script |-> script, file |-> file, log |-> log]

\* f = open(..., 'w')
ToolOpen ==
    /\ ip \in 1..Len(Program)
    /\ Program[ip].op = "open"
    /\ handles' = Put(handles, Program[ip].var, Program[ip].path)
    /\ ip' = ip + 1
    /\ UNCHANGED <<notebook, glob_order, file_lists, todo, running, invoked, returncodes>>
    /\ UNCHANGED <<step2_vars, step5_vars>>

\* input_file_x = glob.glob(pattern); input_file_x.sort()
ToolGlobSort ==
    /\ ip \in 1..Len(Program)
    /\ Program[ip].op = "glob"
    /\ file_lists' = Put(file_lists, Program[ip].var, ListSort(glob_order[Program[ip].pattern]))
    /\ ip' = ip + 1
    /\ UNCHANGED <<notebook, glob_order, handles, todo, running, invoked, returncodes>>
    /\ UNCHANGED <<step2_vars, step5_vars>>

\* for input_file in input_file_x: the loop takes the list
ToolLoopEnter ==
    /\ ip \in 1..Len(Program)
    /\ Program[ip].op = "loop"
    /\ ~todo.active
    /\ todo' = [active |-> TRUE, files |-> file_lists[Program[ip].list]]
    /\ UNCHANGED <<notebook, ip, glob_order, file_lists, handles, running, invoked,
                   returncodes>>
    /\ UNCHANGED <<step2_vars, step5_vars>>

\* the loop body: subprocess.run([...input_file...], stdout=log, stderr=log)
\* starts the child
ToolLoopInvoke ==
    /\ ip \in 1..Len(Program)
    /\ Program[ip].op = "loop"
    /\ todo.active
    /\ todo.files # <<>>
    /\ running = NoProcess
    /\ running' = Invocation(ip, Program[ip].script, Head(todo.files),
                             handles[Program[ip].log])
    /\ invoked' = Append(invoked, running')
    /\ todo' = [todo EXCEPT !.files = Tail(@)]
    /\ UNCHANGED <<notebook, ip, glob_order, file_lists, handles, returncodes>>
    /\ UNCHANGED <<step2_vars, step5_vars>>

\* the list is exhausted
ToolLoopExit ==
    /\ ip \in 1..Len(Program)
    /\ Program[ip].op = "loop"
    /\ todo.active
    /\ todo.files = <<>>
    /\ running = NoProcess
    /\ todo' = NotLooping
    /\ ip' = ip + 1
    /\ UNCHANGED <<notebook, glob_order, file_lists, handles, running, invoked,
                   returncodes>>
    /\ UNCHANGED <<step2_vars, step5_vars>>

\* a single subprocess.run(...) starts the child
ToolRunInvoke ==
    /\ ip \in 1..Len(Program)
    /\ Program[ip].op = "run"
    /\ running = NoProcess
    /\ running' = Invocation(ip, Program[ip].script, NoFile, handles[Program[ip].log])
    /\ invoked' = Append(invoked, running')
    /\ UNCHANGED <<notebook, ip, glob_order, file_lists, handles, todo, returncodes>>
    /\ UNCHANGED <<step2_vars, step5_vars>>

\* the child exits and subprocess.run returns
ProcessExit ==
    /\ running # NoProcess
    /\ \E returncode \in {0, 1} :
           /\ returncodes' = Append(returncodes, returncode)
           /\ ip' = ResumeAt(returncode,
                             IF Program[ip].op = "run" THEN ip + 1 ELSE ip,
                             Len(Program) + 1)
    /\ running' = NoProcess
    /\ UNCHANGED <<notebook, glob_order, file_lists, handles, todo, invoked>>
    /\ UNCHANGED <<step2_vars, step5_vars>>

\* What glob returns: distinct paths in any order.
GlobResults ==
    {s \in SeqsUpTo(1..(MaxFiles + 1), MaxFiles) :
        \A i \in 1..Len(s), j \in 1..Len(s) : i # j => s[i] # s[j]}

Patterns == {"dir_dl1_gamma_test", "dir_dl1_proton_test", "input_data", "input_gamma"}

InitTools ==
    \E nb \in {"Step1", "Step4"}, listing \in GlobResults :
        /\ notebook = nb
        /\ ip = 1
        /\ glob_order = [p \in Patterns |-> listing]
        /\ file_lists = <<>>
        /\ handles = <<>>
        /\ todo = NotLooping
        /\ running = NoProcess
        /\ invoked = <<>>
        /\ returncodes = <<>>
        /\ Step2Idle
        /\ Step5Idle

NextTools ==
    \/ ToolOpen
    \/ ToolGlobSort
    \/ ToolLoopEnter
    \/ ToolLoopInvoke
    \/ ToolLoopExit
    \/ ToolRunInvoke
    \/ ProcessExit

SpecTools == InitTools /\ [][NextTools]_vars

(***************************************************************************)
(* Properties.                                                             *)
(***************************************************************************)
RECURSIVE SumTo(_, _)
SumTo(f, n) == IF n = 0 THEN 0 ELSE f[n] + SumTo(f, n - 1)

AfterCount == {"counted", "done", "energy_done", "angres"}
AfterThetaLoop ==
    {"theta_done", "selected", "counted", "error", "done", "energy_done", "angres"}

\* C2: once the counts are taken, n_on is the number of events of the photon
\* list with theta2_on < cut_value_theta2, and n_off_total is the sum over
\* i = 1..N of the number of events with theta2_off<i> < cut_value_theta2:
\* one threshold for ON and for every OFF region.
C2_CountsBelowTheSameCut ==
    pc \in AfterCount =>
        LET rows == event_list.rows
            Below(col) ==
                {j \in 1..Len(rows) :
                    /\ rows[j].theta2[col] # NaN
                    /\ rows[j].theta2[col][1] < cut_value_theta2}
        IN  /\ n_on = Cardinality(Below(0))
            /\ n_off_total =
                   SumTo([i \in 1..n_regions_off |-> Cardinality(Below(i))],
                         n_regions_off)

\* C2 witness: two selected events, one counted in the ON region and one in
\* an OFF region.
C2_Witness ==
    /\ pc = "counted"
    /\ Len(event_list.rows) = 2
    /\ n_on = 1
    /\ n_off_total = 1

\* C3: alpha = 1/N, n_off_scaled = alpha * n_off_total and
\* n_excess = n_on - n_off_scaled; n_on = 120, n_off_total = 180, N = 3 give
\* n_off_scaled = 60 and n_excess = 60.
C3_AlphaScaledExcess ==
    pc = "done" =>
        /\ alpha.num * n_regions_off = alpha.den
        /\ n_off_scaled.num * alpha.den = alpha.num * n_off_total * n_off_scaled.den
        /\ n_excess.num * n_off_scaled.den
               = (n_on * n_off_scaled.den - n_off_scaled.num) * n_excess.den
        /\ (n_on = 120 /\ n_off_total = 180 /\ n_regions_off = 3) =>
               /\ n_off_scaled.num = 60 * n_off_scaled.den
               /\ n_excess.num = 60 * n_excess.den

\* C3 witness: the excess has been computed for n_on = 120, n_off_total = 180
\* and three OFF regions.
C3_Witness ==
    /\ pc = "done"
    /\ n_on = 120
    /\ n_off_total = 180
    /\ n_regions_off = 3

\* C5: after the loop over observation IDs, every event of the event-wise
\* table carries theta2_on and theta2_off1..theta2_offN, each the squared
\* separation of that event's own reconstructed position from the ON
\* position, respectively from the i-th OFF position of the pointing of the
\* event's own observation.
C5_Theta2OfOwnObservation ==
    pc \in AfterThetaLoop =>
        \A k \in 1..Len(event_data_mean.rows) :
            LET r == event_data_mean.rows[k]
                off == calculate_off_coordinates(Pointing(r.obs_id), on_coord,
                                                 n_regions_off)
            IN  /\ DOMAIN r.theta2 = 0..n_regions_off
                /\ r.theta2[0] = <<Sep2(on_coord, RecoCoord(r))>>
                /\ \A i \in 1..n_regions_off :
                       r.theta2[i] = <<Sep2(off[i], RecoCoord(r))>>

\* C5 witness: the loop has finished on a table that holds events of two
\* observations.
C5_Witness ==
    /\ pc = "theta_done"
    /\ Len(event_data_mean.rows) = 2
    /\ event_data_mean.rows[1].obs_id # event_data_mean.rows[2].obs_id

TimeOrdered(ts) == \A i \in 1..Len(ts), j \in 1..Len(ts) : i < j => ts[i] <= ts[j]

C7_TimestampsSortedPerObservation ==
    pc = "mean" =>
        \A i \in 1..Len(event_data_mean.rows), j \in 1..Len(event_data_mean.rows) :
            (/\ i < j
             /\ event_data_mean.rows[i].obs_id = event_data_mean.rows[j].obs_id)
                => event_data_mean.rows[i].timestamp <= event_data_mean.rows[j].timestamp

\* C8: the livetime of a sample of several observations is the sum of the
\* livetimes of its observations taken separately.
C8_LivetimeIsSumPerObservation ==
    pc = "obstime" =>
        LET obs == np_unique_obs_ids(event_data_mean)
        IN  obs_time =
                SumTo([k \in 1..Len(obs) |->
                          Livetime(Timestamps(ObsEvents(event_data_mean, obs[k])))],
                      Len(obs))

\* C9: the excess rate is n_excess divided by the livetime (in minutes) of
\* the table the photon list was selected from; with a livetime of zero it
\* is not a finite number.
C9_ExcessRatePerLivetime ==
    pc = "done" =>
        /\ obs_time = Livetime(Timestamps(event_data_mean.rows))
        /\ IF obs_time = 0
           THEN excess_rate.kind # "finite"
           ELSE /\ excess_rate.kind = "finite"
                /\ excess_rate.num * n_excess.den * obs_time
                       = n_excess.num * TicksPerMinute * excess_rate.den

\* C9 witness: a nonzero excess with a livetime of zero.
C9_Witness ==
    /\ pc = "done"
    /\ obs_time = 0
    /\ n_excess.num # 0

AfterEnergyBins == {"energy_done", "angres"}

\* C15: for every energy bin that holds events the calculation of the global
\* cut is repeated on the events of the bin: the OFF counts are taken from all
\* N OFF regions, and n_on, n_off_total, alpha, n_excess and the significance
\* of the bin are produced.
C15_SameCalculationPerEnergyBin ==
    pc \in AfterEnergyBins =>
        \A i_bin \in 1..Len(energy_hists) :
            Len(EnergySlice(event_list, energy_bins[i_bin],
                            energy_bins[i_bin + 1]).rows) > 0
                => /\ energy_hists[i_bin].off_columns = 1..n_regions_off
                   /\ {"n_on", "n_off_total", "alpha", "n_excess", "significance"}
                          \subseteq DOMAIN energy_hists[i_bin]

BeforeMean == {"start", "loaded", "stereo", "combo"}
BeforeSelect == BeforeMean \cup {"mean", "obstime", "theta_loop", "theta_done"}

\* C16: the quality cut acts before the mean combination and the photon
\* selection after it.  Every row of the event-wise table is the combination
\* of exactly the telescope rows of its event that pass
\* disp_diff_mean < sqrt(0.05): its multiplicity is their number and its
\* gammaness their mean, so no rejected row contributes; and the photon list
\* is the rows of the event-wise table whose combo_type is in combo_types and
\* whose mean gammaness exceeds cut_value_gh.
C16_QualityCutBeforeMeanSelectionAfter ==
    /\ pc \notin BeforeMean =>
           \A k \in 1..Len(event_data_mean.rows) :
               LET r == event_data_mean.rows[k]
                   passed == {q \in Range(input_rows) :
                                 /\ q.obs_id = r.obs_id
                                 /\ q.event_id = r.event_id
                                 /\ q.disp_diff_mean * q.disp_diff_mean < DispDiffSqCut}
                   g == [t \in 1..3 |->
                            IF \E q \in passed : q.tel_id = t
                            THEN (CHOOSE q \in passed : q.tel_id = t).gammaness
                            ELSE 0]
               IN  /\ r.multiplicity = Cardinality(passed)
                   /\ r.gammaness * Cardinality(passed) = SumTo(g, 3)
    /\ pc \notin BeforeSelect =>
           event_list.rows =
               SelectSeq(event_data_mean.rows,
                         LAMBDA r : r.combo_type \in combo_types
                                        /\ r.gammaness > cut_value_gh)

\* C16 witness: the event-wise table holds an event one of whose telescope
\* rows failed the quality cut and carried another gammaness than the
\* combined row.
C16_Witness ==
    /\ pc = "mean"
    /\ \E k \in 1..Len(event_data_mean.rows) :
           \E q \in Range(input_rows) :
               /\ q.obs_id = event_data_mean.rows[k].obs_id
               /\ q.event_id = event_data_mean.rows[k].event_id
               /\ q.disp_diff_mean * q.disp_diff_mean >= DispDiffSqCut
               /\ q.gammaness # event_data_mean.rows[k].gammaness

\* C17: every step that applies the theta2 cut uses the configured
\* cut_value_theta2: the ON count takes the events with
\* theta2_on < cut_value_theta2, and the events the angular resolution is
\* computed from are the events of the photon list with
\* theta2_on < cut_value_theta2.
C17_Theta2CutIsTheConfiguredValue ==
    /\ pc \in AfterCount =>
           n_on = Cardinality({j \in 1..Len(event_list.rows) :
                                  /\ event_list.rows[j].theta2[0] # NaN
                                  /\ event_list.rows[j].theta2[0][1] < cut_value_theta2})
    /\ pc = "angres" =>
           event_list_table.rows =
               SelectSeq(event_list.rows,
                         LAMBDA r : /\ r.theta2[0] # NaN
                                    /\ r.theta2[0][1] < cut_value_theta2)

\* The table has been through the theta2 assignment: it has the columns
\* theta2_on, theta2_off1..theta2_offN and none of their values is missing.
Theta2Assigned(frame) ==
    /\ frame.theta2_cols = 0..n_regions_off
    /\ \A k \in 1..Len(frame.rows) :
           \A col \in 0..n_regions_off : frame.rows[k].theta2[col] # NaN

\* C18: running the theta2 assignment on a table that already went through
\* it changes nothing: every iteration of the second run leaves every
\* theta2_on and theta2_off<i> value, and the rest of the table, as it was.
C18_SecondAssignmentChangesNothing ==
    [][(pc = "theta_loop" /\ Theta2Assigned(event_data_mean))
           => event_data_mean' = event_data_mean]_vars

\* C18 witness: the second run has gone through the first of two
\* observations of a table that was already filled.
C18_Witness ==
    /\ pc = "theta_loop"
    /\ Theta2Assigned(event_data_mean)
    /\ Len(obs_todo) = 1
    /\ Len(np_unique_obs_ids(event_data_mean)) = 2
    /\ \E k \in 1..Len(event_data_mean.rows) : event_data_mean.rows[k].theta2[0] # <<0>>

\* C19: an observation none of whose events is left in the event-wise table
\* is not visited by the theta2 loop, which raises nothing: the loop visits
\* only observations that hold events, and when it has finished every event
\* of the table has its theta2_on and theta2_off1..theta2_offN assigned.
C19_EmptyObservationSkipped ==
    /\ pc = "theta_loop" =>
           \A k \in 1..Len(obs_todo) : ObsEvents(event_data_mean, obs_todo[k]) # <<>>
    /\ pc = "theta_done" =>
           \A k \in 1..Len(event_data_mean.rows) :
               /\ DOMAIN event_data_mean.rows[k].theta2 = 0..n_regions_off
               /\ \A col \in 0..n_regions_off :
                      event_data_mean.rows[k].theta2[col] # NaN

\* C19 witness: the loop has finished on a table that holds an event of one
\* observation while the input files held events of another observation too,
\* none of which was left.
C19_Witness ==
    /\ pc = "theta_done"
    /\ Len(event_data_mean.rows) >= 1
    /\ \E q \in Range(input_rows) :
           \A k \in 1..Len(event_data_mean.rows) :
               event_data_mean.rows[k].obs_id # q.obs_id

\* C25: the livetime is never negative, and every consecutive timestamp
\* difference added to it lies in [0, 1 s).
C25_LivetimeNeverNegative ==
    pc \notin (BeforeMean \cup {"mean"}) =>
        LET time_diffs == np_diff(Timestamps(event_data_mean.rows))
        IN  /\ obs_time >= 0
            /\ \A i \in 1..Len(time_diffs) :
                   time_diffs[i] < GapThreshold => time_diffs[i] >= 0

\* C26: the theta2_off columns the theta2 assignment has written are exactly
\* the columns theta2_off1..theta2_offN that the histogramming and the n_off
\* counting read; each holds a value for every event of the photon list, and
\* n_off_total is the sum of the counts of all of them.
C26_ColumnsWrittenAreColumnsRead ==
    pc \in AfterCount =>
        LET written == event_list.theta2_cols \ {0}
            rows == event_list.rows
            count == [i \in 1..n_regions_off |->
                         Cardinality({j \in 1..Len(rows) :
                                         /\ i \in DOMAIN rows[j].theta2
                                         /\ rows[j].theta2[i] # NaN
                                         /\ rows[j].theta2[i][1] < cut_value_theta2})]
        IN  /\ written = ColumnsRead(n_regions_off) \ {0}
            /\ \A j \in 1..Len(rows) :
                   \A i \in written :
                       i \in DOMAIN rows[j].theta2 /\ rows[j].theta2[i] # NaN
            /\ n_off_total = SumTo(count, n_regions_off)

\* C26 witness: with three OFF regions, an event has been counted in an OFF
\* region other than the first.
C26_Witness ==
    /\ pc = "counted"
    /\ n_regions_off = 3
    /\ n_off_total >= 1
    /\ \E j \in 1..Len(event_list.rows) :
           event_list.rows[j].theta2[2][1] < cut_value_theta2

\* C27: every event of the photon list whose reco_energy lies between the
\* lowest and the highest edge of energy_bins, the edges included, is in the
\* selection of exactly one energy bin.
C27_EnergyBinsPartition ==
    pc \in AfterEnergyBins =>
        \A j \in 1..Len(event_list.rows) :
            LET r == event_list.rows[j]
            IN  (/\ r.reco_energy >= energy_bins[1]
                 /\ r.reco_energy <= energy_bins[Len(energy_bins)])
                    => Cardinality({i_bin \in 1..Len(energy_hists) :
                                       EventIndex(r) \in Range(energy_hists[i_bin].index)})
                           = 1

\* C22: with input_dir_1 = "" (double = False) every cell completes: no cell
\* raises for reading a variable of the second sample, none of which is
\* defined in that mode.
C22_SingleSampleRunsToTheEnd ==
    ("double" \in defined /\ ~double) => raised = NoError

\* C23: with a second sample, on_region_1 is determined by the second
\* sample's own first observation: its centre is that sample's
\* RA_OBJ/DEC_OBJ, and it is a circle of radius RAD_MAX exactly when RAD_MAX
\* is in that sample's effective-area metadata, a point region otherwise.
C23_SecondOnRegionFromSecondSample ==
    ("on_region_1" \in defined) =>
        LET second == dl3_inputs.meta[2]
            centre == <<second.event_meta.RA_OBJ, second.event_meta.DEC_OBJ>>
        IN  /\ on_region_1.center = centre
            /\ IF \E kv \in second.aeff_meta : kv[1] = "RAD_MAX"
               THEN /\ on_region_1.shape = "CircleSkyRegion"
                    /\ \E kv \in second.aeff_meta :
                           kv[1] = "RAD_MAX" /\ on_region_1.radius = kv[2]
               ELSE on_region_1.shape = "PointSkyRegion"

\* C29: the makers of the second sample are created with the settings of the
\* makers of the first: the same energy axes, number of OFF regions,
\* spectrum-dataset-maker options and safe-mask settings.
C29_SameReductionConfiguration ==
    ("safe_mask_maker_1" \in defined) =>
        /\ makers[2].on_geom.axes = makers[1].on_geom.axes
        /\ makers[2].energy_axis_true = makers[1].energy_axis_true
        /\ makers[2].region_finder = makers[1].region_finder
        /\ makers[2].dataset_maker = makers[1].dataset_maker
        /\ makers[2].safe_mask_maker = makers[1].safe_mask_maker

\* The invocations the statement at position k has made, in order.
InvokedBy(k) == SelectSeq(invoked, LAMBDA v : v.stmt = k)

\* The glob pattern whose sorted listing is in the list variable when the
\* statement at position k runs.
PatternOf(k) ==
    LET globs == {j \in 1..(k - 1) :
                     Program[j].op = "glob" /\ Program[j].var = Program[k].list}
        last == CHOOSE j \in globs : \A m \in globs : m <= j
    IN  Program[last].pattern

\* The log file of the stage an invocation belongs to.
StageLog(v) ==
    CASE v.script = "lst1_magic_train_rfs.py" -> "RF.log"
      [] v.script = "lst1_magic_create_irf.py" -> "IRF.log"
      [] v.script = "lst1_magic_dl2_to_dl3.py" -> "DL3.log"
      [] v.script = "create_dl3_index_files.py" -> "DL3.log"
      [] v.script = "lst1_magic_dl1_stereo_to_dl2.py" ->
             CASE Program[v.stmt].list = "input_file_gamma" -> "DL2_mc_gamma.log"
               [] Program[v.stmt].list = "input_file_proton" -> "DL2_mc_proton.log"
               [] Program[v.stmt].list = "input_file_data" -> "DL2_data.log"

\* C24: in every loop the input files are invoked in sorted order, each
\* exactly once; an invocation starts only when every earlier one has
\* exited; the index-file script is invoked at most once, after the
\* DL2-to-DL3 invocation of every input file has exited, and once when the
\* notebook has run; every invocation writes to the log file of its stage.
C24_SortedSequentialOncePerFile ==
    /\ Len(invoked) - Len(returncodes) = (IF running = NoProcess THEN 0 ELSE 1)
    /\ \A k \in 1..Len(Program) :
           (Program[k].op = "loop" /\ ip > k) =>
               LET made == InvokedBy(k)
               IN  /\ \A i \in 1..Len(made), j \in 1..Len(made) :
                          i < j => made[i].file < made[j].file
                   /\ {made[i].file : i \in 1..Len(made)} = Range(glob_order[PatternOf(k)])
    /\ \A i \in 1..Len(invoked) : invoked[i].log = StageLog(invoked[i])
    /\ LET index == {i \in 1..Len(invoked) :
                        invoked[i].script = "create_dl3_index_files.py"}
       IN  /\ Cardinality(index) <= 1
           /\ (notebook = "Step4" /\ AtEnd) => Cardinality(index) = 1
           /\ \A i \in index :
                  /\ Len(returncodes) >= i - 1
                  /\ \A file \in Range(glob_order["input_data"]) :
                         \E j \in 1..(i - 1) :
                             /\ invoked[j].script = "lst1_magic_dl2_to_dl3.py"
                             /\ invoked[j].file = file

\* C24 witness: the Step 4 notebook has run on two input files that glob
\* returned in descending order.
C24_Witness ==
    /\ notebook = "Step4"
    /\ AtEnd
    /\ Len(glob_order["input_data"]) = 2
    /\ glob_order["input_data"][1] > glob_order["input_data"][2]
    /\ invoked[Len(invoked)].script = "create_dl3_index_files.py"

\* C30: an invocation that exits with an error stops nothing: whatever the
\* exit statuses, when the notebook has run every loop has invoked its script
\* for every input file and every single invocation has been made.
C30_FailureDoesNotStopTheRun ==
    AtEnd =>
        \A k \in 1..Len(Program) :
            /\ Program[k].op = "run" => Len(InvokedBy(k)) = 1
            /\ Program[k].op = "loop" =>
                   /\ Len(InvokedBy(k)) = Len(glob_order[PatternOf(k)])
                   /\ \A file \in Range(glob_order[PatternOf(k)]) :
                          \E i \in 1..Len(InvokedBy(k)) : InvokedBy(k)[i].file = file

\* C30 witness: the Step 4 notebook has run although the first DL2-to-DL3
\* invocation of two exited with an error.
C30_Witness ==
    /\ notebook = "Step4"
    /\ AtEnd
    /\ Len(glob_order["input_data"]) = 2
    /\ \E i \in 1..Len(invoked) :
           /\ invoked[i].script = "lst1_magic_dl2_to_dl3.py"
           /\ invoked[i].file = ListSort(glob_order["input_data"])[1]
           /\ returncodes[i] # 0

====
